---- MODULE Spec2Model ----
(***************************************************************************)
(* A model of scripts/ab_testing_simulation.py: the ABTestSimulator class, *)
(* its session generator, its conversion-probability function, the         *)
(* PostgreSQL tables it fills and the run_simulation pipeline.             *)
(*                                                                         *)
(* Numbers.  Python floats are modelled by exact scaled integers:          *)
(*   probabilities and random.random() draws   in units of 1e-5,           *)
(*   the np.random.normal sample               in tenths of a second,      *)
(*   rating sums and uniform deltas            in hundredths of a star,    *)
(*   a rounded rating                          in tenths of a star,        *)
(*   conversion_rate DECIMAL(5,4)              in units of 1e-4,           *)
(*   avg_time_spent DECIMAL(8,2), avg_rating DECIMAL(3,2) in hundredths.   *)
(* The float rounding error of the code (about 1e-16) is far below every   *)
(* gap the properties below rest on.                                       *)
(*                                                                         *)
(* Record fields.  A session keeps the columns some operation reads:       *)
(* user_id, age_group, device_type, the four variant columns,              *)
(* time_spent_seconds, converted, rating.  session_date, app_name,         *)
(* app_genre, country and session_id are written once and read by nothing  *)
(* but the INSERT; session_id is a uuid4 like user_id.                     *)
(***************************************************************************)
EXTENDS Integers, Sequences, FiniteSets, TLC

\* Largest num_users a configuration draws.
MaxUsers == 2

Min2(a, b) == IF a <= b THEN a ELSE b
Max2(a, b) == IF a >= b THEN a ELSE b

(***************************************************************************)
(* Values of a nullable float: Python None, the float NaN, or a number.    *)
(***************************************************************************)
None == [tag |-> "None", v |-> 0]
NaN == [tag |-> "NaN", v |-> 0]
Num(x) == [tag |-> "num", v |-> x]
NULL == [tag |-> "NULL", v |-> 0]

(***************************************************************************)
(* generate_test_variants: the catalog.  Variant keys in dict order.       *)
(***************************************************************************)
TestKeys == <<"icon_design_test", "description_test", "pricing_test", "screenshots_test">>

generate_test_variants ==
    [icon_design_test |-> [test_id |-> "icon_design_001",
                           test_name |-> "App Icon Design Test",
                           variants |-> <<"control", "variant_a", "variant_b">>],
     description_test |-> [test_id |-> "description_002",
                           test_name |-> "App Description Length Test",
                           variants |-> <<"control", "variant_a">>],
     pricing_test     |-> [test_id |-> "pricing_003",
                           test_name |-> "Pricing Strategy Test",
                           variants |-> <<"control", "variant_a", "variant_b">>],
     screenshots_test |-> [test_id |-> "screenshots_004",
                           test_name |-> "Screenshot Count Test",
                           variants |-> <<"control", "variant_a">>]]

Range(s) == {s[i] : i \in DOMAIN s}

VariantKeys(test_key) == Range(generate_test_variants[test_key].variants)

\* The weighted populations of random.choices for age_group and device_type.
AgeGroups == {"18-24", "25-34", "35-44", "45-54", "55+"}
DeviceTypes == {"iPhone", "iPad", "Apple Watch", "Mac"}

(***************************************************************************)
(* calculate_conversion_probability, in units of 1e-5.                     *)
(* The additive part is in thousandths, each multiplier in tenths.         *)
(***************************************************************************)
age_multipliers(age_group) ==
    CASE age_group = "18-24" -> 12
      [] age_group = "25-34" -> 11
      [] age_group = "35-44" -> 10
      [] age_group = "45-54" -> 9
      [] age_group = "55+"   -> 8
      [] OTHER               -> 10

device_multipliers(device_type) ==
    CASE device_type = "iPhone"      -> 10
      [] device_type = "iPad"        -> 9
      [] device_type = "Apple Watch" -> 7
      [] device_type = "Mac"         -> 6
      [] OTHER                       -> 10

\* base_prob as it stands before the return statement.
scaled_probability(user_tests, age_group, device_type) ==
    LET p0 == 150
        p1 == p0 + (IF user_tests["icon_design_test"] = "variant_a" THEN 20
                    ELSE IF user_tests["icon_design_test"] = "variant_b" THEN 35
                    ELSE 0)
        p2 == p1 + (IF user_tests["description_test"] = "variant_a" THEN 25 ELSE 0)
        p3 == p2 + (IF user_tests["pricing_test"] = "control" THEN 80
                    ELSE IF user_tests["pricing_test"] = "variant_a" THEN 40
                    ELSE 0)
        p4 == p3 + (IF user_tests["screenshots_test"] = "variant_a" THEN 15 ELSE 0)
    IN  (p4 * age_multipliers(age_group)) * device_multipliers(device_type)

\* A slip the comment "Cap between 1% and 95%" invites: the caps as percents.
cap_as_percent(base_prob) == Min2(9500000, Max2(100000, base_prob))

\* A slip: caps that are too tight, 10% and 25%.
cap_too_tight(base_prob) == Min2(25000, Max2(10000, base_prob))

\* min(0.95, max(0.01, base_prob))
cap_probability(base_prob) == Min2(95000, Max2(1000, base_prob))

calculate_conversion_probability(user_tests, age_group, device_type) ==
    cap_probability(scaled_probability(user_tests, age_group, device_type))

(***************************************************************************)
(* One pass through the loop body of generate_user_sessions.               *)
(* s holds the draws of the pass from the seeded sources (random,          *)
(* np.random): age_group, device_type, the four random.choice results,     *)
(* u = random.random(), the two random.randint bonuses, noise = the        *)
(* deviation of the np.random.normal sample from its mean, and the three   *)
(* random.uniform deltas of the rating.  A draw the code does not make in  *)
(* this pass is 0.                                                         *)
(***************************************************************************)
user_tests_of(s) ==
    [icon_design_test |-> s.icon, description_test |-> s.description,
     pricing_test |-> s.pricing, screenshots_test |-> s.screenshots]

\* Python int() of a float given in tenths: truncation toward zero.
int(x10) == IF x10 >= 0 THEN x10 \div 10 ELSE -((-x10) \div 10)

\* base_time before the normal draw.
base_time(user_tests, s) ==
    LET t0 == 45
        t1 == t0 + (IF user_tests["description_test"] = "variant_a" THEN s.desc_bonus ELSE 0)
    IN  t1 + (IF user_tests["screenshots_test"] = "variant_a" THEN s.shot_bonus ELSE 0)

\* A slip: the floor of 5 seconds left out.
time_spent_unfloored(user_tests, s) == int(base_time(user_tests, s) * 10 + s.noise)

\* time_spent = max(5, int(np.random.normal(base_time, 15)))
time_spent(user_tests, s) ==
    Max2(5, int(base_time(user_tests, s) * 10 + s.noise))

\* Python round(x, 1) of a positive x given in hundredths; the result in tenths.
round1(h) ==
    LET q == h \div 10
        r == h % 10
    IN  IF r < 5 THEN q
        ELSE IF r > 5 THEN q + 1
        ELSE IF q % 2 = 0 THEN q ELSE q + 1

rated(user_tests, s) ==
    LET b0 == 400
        b1 == b0 + (IF user_tests["icon_design_test"] \in {"variant_a", "variant_b"}
                    THEN s.r_icon ELSE 0)
        b2 == b1 + (IF user_tests["pricing_test"] = "control" THEN s.r_price ELSE 0)
    IN  Num(round1(Min2(500, Max2(100, b2 + s.r_noise))))

\* A slip: the rating computed whether or not the user converted.
rating_unconditional(user_tests, converted, s) == rated(user_tests, s)

\* rating = None; if converted: rating = round(min(5.0, max(1.0, ...)), 1)
rating_of(user_tests, converted, s) ==
    IF converted THEN rated(user_tests, s) ELSE None

converted_of(s) ==
    s.u < calculate_conversion_probability(user_tests_of(s), s.age_group, s.device_type)

\* The dict appended to sessions.
session_dict(s, uuid) ==
    LET user_tests == user_tests_of(s)
        converted == converted_of(s)
    IN  [user_id |-> uuid,
         age_group |-> s.age_group,
         device_type |-> s.device_type,
         icon_design_variant |-> user_tests["icon_design_test"],
         description_variant |-> user_tests["description_test"],
         pricing_variant |-> user_tests["pricing_test"],
         screenshots_variant |-> user_tests["screenshots_test"],
         time_spent_seconds |-> time_spent(user_tests, s),
         converted |-> converted,
         rating |-> rating_of(user_tests, converted, s)]

(***************************************************************************)
(* pd.DataFrame(sessions): a rating column that holds a float is of dtype  *)
(* float64 and its None entries become NaN; a column of None alone stays   *)
(* an object column of None.  The empty list gives a frame of no columns.  *)
(***************************************************************************)
DataFrame(rows) ==
    IF \E i \in DOMAIN rows : rows[i].rating.tag = "num"
    THEN [i \in DOMAIN rows |->
             IF rows[i].rating.tag = "None"
             THEN [rows[i] EXCEPT !.rating = NaN]
             ELSE rows[i]]
    ELSE rows

\* df[col].notna()
notna(x) == x.tag = "num"

(***************************************************************************)
(* The state.                                                              *)
(*   pc, error           where the run stands, and the exception raised    *)
(*   num_users, test_duration_days   the simulator's configuration         *)
(*   sessions            the list generate_user_sessions appends to        *)
(*   df                  the DataFrame it returned                         *)
(*   stream, rng_pos     the seeded sources: what seed 42 has been seen to *)
(*                       yield, pass by pass, and the passes drawn since   *)
(*                       the seeding                                       *)
(*   tables_exist, ab_test_sessions, ab_test_variants, ab_test_summary     *)
(*                       the database                                      *)
(*   sink_calls          the methods that opened a database connection     *)
(*   run_no, first_df, fresh_process   a second generation and the first   *)
(*                       one's result                                      *)
(*   prob_args, prob     a call of calculate_conversion_probability        *)
(***************************************************************************)
VARIABLES pc, error, num_users, test_duration_days, sessions, df,
          stream, rng_pos,
          tables_exist, ab_test_sessions, ab_test_variants, ab_test_summary,
          sink_calls, run_no, first_df, fresh_process, prob_args, prob

vars == <<pc, error, num_users, test_duration_days, sessions, df,
          stream, rng_pos,
          tables_exist, ab_test_sessions, ab_test_variants, ab_test_summary,
          sink_calls, run_no, first_df, fresh_process, prob_args, prob>>

config == <<num_users, test_duration_days>>
rng == <<stream, rng_pos>>
db == <<tables_exist, ab_test_sessions, ab_test_variants, ab_test_summary, sink_calls>>
second == <<run_no, first_df, fresh_process>>
call == <<prob_args, prob>>

(***************************************************************************)
(* What the random sources may yield in a model run: one set per draw.     *)
(***************************************************************************)
\* The pipeline: several variants of every test but the last, a user who
\* converts and one who does not.
RunGrid ==
    [uuid |-> {"uuid-a"}, age_group |-> {"25-34"}, device_type |-> {"iPhone"},
     icon |-> VariantKeys("icon_design_test"),
     description |-> VariantKeys("description_test"),
     pricing |-> VariantKeys("pricing_test"),
     screenshots |-> {"variant_a"},
     u |-> {10000, 50000},
     desc_bonus |-> {20}, shot_bonus |-> {12}, noise |-> {0},
     r_icon |-> {10}, r_price |-> {-10}, r_noise |-> {0}]

\* One pass of the loop: every population value, the ends of every range.
SessionGrid ==
    [uuid |-> {"uuid-a"}, age_group |-> AgeGroups, device_type |-> DeviceTypes,
     icon |-> VariantKeys("icon_design_test"),
     description |-> VariantKeys("description_test"),
     pricing |-> VariantKeys("pricing_test"),
     screenshots |-> VariantKeys("screenshots_test"),
     u |-> {0, 7199, 20000, 36599, 99999},
     desc_bonus |-> {10, 30}, shot_bonus |-> {5, 20},
     noise |-> {-2000, -455, -401, 0, 300},
     r_icon |-> {-20, 40}, r_price |-> {-30, 10}, r_noise |-> {-100, 3, 100}]

\* Two generations: passes that differ in variant, conversion and time spent.
ReproGrid ==
    [uuid |-> {"uuid-a"}, age_group |-> {"25-34"}, device_type |-> {"iPhone"},
     icon |-> {"control", "variant_b"},
     description |-> {"control"},
     pricing |-> {"control"},
     screenshots |-> {"control"},
     u |-> {10000, 50000},
     desc_bonus |-> {20}, shot_bonus |-> {12}, noise |-> {0, 70},
     r_icon |-> {10}, r_price |-> {-10}, r_noise |-> {0}]

(***************************************************************************)
(* The module-level seeding (Faker.seed(42), np.random.seed(42),           *)
(* random.seed(42)): the sources stand at the start of the seed's stream.  *)
(***************************************************************************)
\* A slip: the sources left unseeded, so a process draws from OS entropy.
seed_left_out(strm) == Len(strm)

seed_all(strm) == 0

(***************************************************************************)
(* The loop body of generate_user_sessions, with the sources' draws.       *)
(* Below Len(stream) the seeded sources repeat what they yielded before;   *)
(* beyond it they yield values not seen yet.  uuid4 is not seeded.         *)
(***************************************************************************)
GenerateUser(G) ==
    /\ pc = "generating"
    /\ Len(sessions) < num_users
    /\ \E age \in G.age_group, dev \in G.device_type,
          vi \in G.icon, vd \in G.description, vp \in G.pricing, vs \in G.screenshots,
          u \in G.u, uuid \in G.uuid :
         LET ut == [icon_design_test |-> vi, description_test |-> vd,
                    pricing_test |-> vp, screenshots_test |-> vs]
             conv == u < calculate_conversion_probability(ut, age, dev)
         IN  \E b1 \in (IF vd = "variant_a" THEN G.desc_bonus ELSE {0}),
                b2 \in (IF vs = "variant_a" THEN G.shot_bonus ELSE {0}),
                nz \in G.noise,
                ri \in (IF conv /\ vi \in {"variant_a", "variant_b"} THEN G.r_icon ELSE {0}),
                rp \in (IF conv /\ vp = "control" THEN G.r_price ELSE {0}),
                rn \in (IF conv THEN G.r_noise ELSE {0}) :
               LET s == [age_group |-> age, device_type |-> dev, icon |-> vi,
                         description |-> vd, pricing |-> vp, screenshots |-> vs,
                         u |-> u, desc_bonus |-> b1, shot_bonus |-> b2, noise |-> nz,
                         r_icon |-> ri, r_price |-> rp, r_noise |-> rn]
               IN  /\ rng_pos < Len(stream) => s = stream[rng_pos + 1]
                   /\ stream' = IF rng_pos < Len(stream) THEN stream ELSE Append(stream, s)
                   /\ rng_pos' = rng_pos + 1
                   /\ sessions' = Append(sessions, session_dict(s, uuid))
    /\ UNCHANGED <<pc, error, config, df, db, second, call>>

(***************************************************************************)
(* fake.date_time_between(start_date, end_date) with start_date after      *)
(* end_date (test_duration_days < 0): a Faker that draws                   *)
(* randint(start, end) raises ValueError, a later Faker returns a time.    *)
(***************************************************************************)
GenerateUserRaises ==
    /\ pc = "generating"
    /\ Len(sessions) < num_users
    /\ test_duration_days < 0
    /\ pc' = "raised"
    /\ error' = "ValueError"
    /\ UNCHANGED <<config, sessions, df, rng, db, second, call>>

\* return pd.DataFrame(sessions), once range(self.num_users) is exhausted.
ReturnDataFrame ==
    /\ pc = "generating"
    /\ Len(sessions) >= num_users
    /\ df' = DataFrame(sessions)
    /\ pc' = "generated"
    /\ UNCHANGED <<error, config, sessions, rng, db, second, call>>

(***************************************************************************)
(* The database side.                                                      *)
(***************************************************************************)
\* create_database_tables: DROP TABLE IF EXISTS x3, CREATE TABLE x3, commit.
create_database_tables ==
    /\ pc = "start"
    /\ tables_exist' = TRUE
    /\ ab_test_sessions' = <<>>
    /\ ab_test_variants' = {}
    /\ ab_test_summary' = {}
    /\ sink_calls' = Append(sink_calls, "create_database_tables")
    /\ pc' = "tables_created"
    /\ UNCHANGED <<error, config, sessions, df, rng, second, call>>

\* The (test_id, test_name, variant_key) part of variant_data.
variant_data ==
    {[test_id |-> generate_test_variants[TestKeys[k]].test_id,
      test_name |-> generate_test_variants[TestKeys[k]].test_name,
      variant_key |-> v] :
        <<k, v>> \in {kv \in (DOMAIN TestKeys) \X {"control", "variant_a", "variant_b"} :
                        kv[2] \in VariantKeys(TestKeys[kv[1]])}}

\* insert_test_variants, and run_simulation's step into generate_user_sessions.
insert_test_variants ==
    /\ pc = "tables_created"
    /\ ab_test_variants' = ab_test_variants \cup variant_data
    /\ sink_calls' = Append(sink_calls, "insert_test_variants")
    /\ sessions' = <<>>
    /\ pc' = "generating"
    /\ UNCHANGED <<error, config, df, rng, tables_exist, ab_test_sessions,
                   ab_test_summary, second, call>>

(***************************************************************************)
(* psycopg2's adaptation of a rating and the DECIMAL(2,1) column: None is  *)
(* NULL; the float NaN is 'NaN'::float, which numeric stores as NaN.       *)
(***************************************************************************)
adapt(x) == IF x.tag = "None" THEN NULL ELSE x

\* data = [tuple(row) for row in df.to_numpy()]
to_rows(frame) == [i \in DOMAIN frame |-> [frame[i] EXCEPT !.rating = adapt(@)]]

\* A slip: the rows generated so far written from inside the loop.
insert_session_data_interleaved ==
    /\ pc \in {"generating", "generated"}
    /\ tables_exist
    /\ ab_test_sessions' =
         ab_test_sessions \o to_rows(IF pc = "generated" THEN df ELSE DataFrame(sessions))
    /\ sink_calls' = Append(sink_calls, "insert_session_data")
    /\ pc' = IF pc = "generated" THEN "inserted" ELSE pc
    /\ UNCHANGED <<error, config, sessions, df, rng, tables_exist, ab_test_variants,
                   ab_test_summary, second, call>>

\* insert_session_data(df): execute_values of the rows, commit.
insert_session_data ==
    /\ pc = "generated"
    /\ tables_exist
    /\ ab_test_sessions' = ab_test_sessions \o to_rows(df)
    /\ sink_calls' = Append(sink_calls, "insert_session_data")
    /\ pc' = "inserted"
    /\ UNCHANGED <<error, config, sessions, df, rng, tables_exist, ab_test_variants,
                   ab_test_summary, second, call>>

RECURSIVE SeqSum(_)
SeqSum(s) == IF s = <<>> THEN 0 ELSE s[1] + SeqSum(Tail(s))

\* a / b rounded to the nearest integer, halves up (numeric rounding), a >= 0 < b.
RoundDiv(a, b) == (2 * a + b) \div (2 * b)

(***************************************************************************)
(* AVG(rating) over a group: NULLs are skipped; no value left gives NULL;  *)
(* a NaN among the values gives NaN.  Ratings in tenths, the DECIMAL(3,2)  *)
(* result in hundredths.                                                   *)
(***************************************************************************)
sql_avg(vals) ==
    LET nonnull == SelectSeq(vals, LAMBDA x : x.tag # "NULL")
    IN  IF nonnull = <<>> THEN NULL
        ELSE IF \E i \in DOMAIN nonnull : nonnull[i].tag = "NaN" THEN NaN
        ELSE Num(RoundDiv(10 * SeqSum([i \in DOMAIN nonnull |-> nonnull[i].v]),
                          Len(nonnull)))

\* The tests list of generate_summary_statistics.
summary_tests ==
    <<<<"App Icon Design Test", "icon_design_variant">>,
      <<"App Description Length Test", "description_variant">>,
      <<"Pricing Strategy Test", "pricing_variant">>,
      <<"Screenshot Count Test", "screenshots_variant">>>>

\* A slip: the aggregate taken over the converted rows only (WHERE converted).
summary_row_converted_only(table, test_name, variant_column, key) ==
    LET g == SelectSeq(table, LAMBDA r : r[variant_column] = key /\ r.converted)
    IN  [test_name |-> test_name, variant_key |-> key,
         total_users |-> Len(g), conversions |-> Len(g),
         conversion_rate |-> 10000,
         avg_time_spent |-> 0,
         avg_rating |-> sql_avg([i \in DOMAIN g |-> g[i].rating])]

\* One row of SELECT ... FROM ab_test_sessions GROUP BY variant_column.
summary_row(table, test_name, variant_column, key) ==
    LET g == SelectSeq(table, LAMBDA r : r[variant_column] = key)
        conversions == SeqSum([i \in DOMAIN g |-> IF g[i].converted THEN 1 ELSE 0])
    IN  [test_name |-> test_name, variant_key |-> key,
         total_users |-> Len(g),
         conversions |-> conversions,
         conversion_rate |-> RoundDiv(10000 * conversions, Len(g)),
         avg_time_spent |->
             RoundDiv(100 * SeqSum([i \in DOMAIN g |-> g[i].time_spent_seconds]), Len(g)),
         avg_rating |-> sql_avg([i \in DOMAIN g |-> g[i].rating])]

\* The rows the four INSERT ... SELECT statements add.
summary_rows(table) ==
    UNION {{summary_row(table, summary_tests[t][1], summary_tests[t][2], key) :
              key \in {table[i][summary_tests[t][2]] : i \in DOMAIN table}} :
           t \in DOMAIN summary_tests}

generate_summary_statistics ==
    /\ pc = "inserted"
    /\ ab_test_summary' = ab_test_summary \cup summary_rows(ab_test_sessions)
    /\ sink_calls' = Append(sink_calls, "generate_summary_statistics")
    /\ pc' = "summarised"
    /\ UNCHANGED <<error, config, sessions, df, rng, tables_exist, ab_test_sessions,
                   ab_test_variants, second, call>>

(***************************************************************************)
(* The closing prints of run_simulation and return df.  On the frame of no *)
(* columns (no session) df['converted'] raises KeyError.                   *)
(***************************************************************************)
print_summary ==
    /\ pc = "summarised"
    /\ IF Len(df) = 0
       THEN pc' = "raised" /\ error' = "KeyError"
       ELSE pc' = "done" /\ error' = error
    /\ UNCHANGED <<config, sessions, df, rng, db, second, call>>

(***************************************************************************)
(* A second generation after the first returned: the same simulator asked  *)
(* again in the same process, or the script started again (the module      *)
(* level runs again and seeds the sources; the configuration is the same). *)
(***************************************************************************)
generate_again ==
    /\ pc = "generated"
    /\ run_no = 1
    /\ first_df' = df
    /\ run_no' = 2
    /\ fresh_process' = FALSE
    /\ sessions' = <<>>
    /\ pc' = "generating"
    /\ UNCHANGED <<error, config, df, rng, db, call>>

start_again ==
    /\ pc = "generated"
    /\ run_no = 1
    /\ first_df' = df
    /\ run_no' = 2
    /\ fresh_process' = TRUE
    /\ rng_pos' = seed_all(stream)
    /\ sessions' = <<>>
    /\ pc' = "generating"
    /\ UNCHANGED <<error, config, df, stream, db, call>>

(***************************************************************************)
(* A call of calculate_conversion_probability on its own.                  *)
(***************************************************************************)
Assignments ==
    {[icon_design_test |-> vi, description_test |-> vd,
      pricing_test |-> vp, screenshots_test |-> vs] :
        vi \in VariantKeys("icon_design_test"), vd \in VariantKeys("description_test"),
        vp \in VariantKeys("pricing_test"), vs \in VariantKeys("screenshots_test")}

\* Arguments of a call: the generator's populations and one value outside each table.
CallArgs ==
    [user_tests : Assignments,
     age_group : AgeGroups \cup {"65+"},
     device_type : DeviceTypes \cup {"Apple TV"}]

call_probability ==
    /\ pc = "call"
    /\ prob' = calculate_conversion_probability(prob_args.user_tests,
                                                prob_args.age_group,
                                                prob_args.device_type)
    /\ pc' = "returned"
    /\ UNCHANGED <<error, config, sessions, df, rng, db, second, prob_args>>

(***************************************************************************)
(* Initial states and specifications.                                      *)
(***************************************************************************)
NoArgs ==
    [user_tests |-> [icon_design_test |-> "control", description_test |-> "control",
                     pricing_test |-> "control", screenshots_test |-> "control"],
     age_group |-> "35-44", device_type |-> "iPhone"]

\* The module is loaded (the sources seeded), nothing generated, no table.
Fresh ==
    /\ error = ""
    /\ sessions = <<>>
    /\ df = <<>>
    /\ stream = <<>>
    /\ rng_pos = seed_all(stream)
    /\ tables_exist = FALSE
    /\ ab_test_sessions = <<>>
    /\ ab_test_variants = {}
    /\ ab_test_summary = {}
    /\ sink_calls = <<>>
    /\ run_no = 1
    /\ first_df = <<>>
    /\ fresh_process = TRUE

\* ABTestSimulator(num_users, test_duration_days): no argument is checked.
Init ==
    /\ pc = "start"
    /\ num_users \in -1 .. MaxUsers
    /\ test_duration_days \in {-1, 0, 1}
    /\ Fresh
    /\ prob_args = NoArgs
    /\ prob = 0

\* run_simulation.
Next ==
    \/ create_database_tables
    \/ insert_test_variants
    \/ GenerateUser(RunGrid)
    \/ GenerateUserRaises
    \/ ReturnDataFrame
    \/ insert_session_data
    \/ generate_summary_statistics
    \/ print_summary

Spec == Init /\ [][Next]_vars

\* generate_user_sessions called for one user.
InitSession ==
    /\ pc = "generating"
    /\ num_users = 1
    /\ test_duration_days = 1
    /\ Fresh
    /\ prob_args = NoArgs
    /\ prob = 0

NextSession ==
    \/ GenerateUser(SessionGrid)
    \/ ReturnDataFrame

SpecSession == InitSession /\ [][NextSession]_vars

\* generate_user_sessions called, then called again.
InitRepro ==
    /\ pc = "generating"
    /\ num_users \in 0 .. MaxUsers
    /\ test_duration_days = 1
    /\ Fresh
    /\ prob_args = NoArgs
    /\ prob = 0

NextRepro ==
    \/ GenerateUser(ReproGrid)
    \/ ReturnDataFrame
    \/ generate_again
    \/ start_again

SpecRepro == InitRepro /\ [][NextRepro]_vars

\* calculate_conversion_probability called.
InitCall ==
    /\ pc = "call"
    /\ num_users = 0
    /\ test_duration_days = 1
    /\ Fresh
    /\ prob_args \in CallArgs
    /\ prob = 0

NextCall == call_probability

SpecCall == InitCall /\ [][NextCall]_vars

(***************************************************************************)
(* Properties.                                                             *)
(***************************************************************************)
RECURSIVE SumField(_, _)
SumField(S, f) ==
    IF S = {} THEN 0
    ELSE LET r == CHOOSE x \in S : TRUE
         IN  r[f] + SumField(S \ {r}, f)

\* generate_user_sessions has returned all its records.
Generated ==
    \/ pc \in {"generated", "inserted", "summarised", "done"}
    \/ pc = "raised" /\ error = "KeyError"

\* generate_summary_statistics has run.
Summarised ==
    \/ pc \in {"summarised", "done"}
    \/ pc = "raised" /\ error = "KeyError"

InvalidConfiguration == num_users < 0 \/ test_duration_days <= 0

\* C1: in every record generate_user_sessions builds and in every row of the
\* frame it returns, the rating is present (not None, not NaN) exactly when
\* converted is true.
C1_RatingIffConverted ==
    /\ \A i \in DOMAIN sessions : sessions[i].converted <=> sessions[i].rating.tag = "num"
    /\ \A i \in DOMAIN df : df[i].converted <=> notna(df[i].rating)

\* C1 witness: a returned frame with a converted row that has a rating and an
\* unconverted row whose rating is missing.
C1_Witness ==
    /\ pc = "generated"
    /\ \E i, j \in DOMAIN df :
         /\ df[i].converted /\ df[i].rating.tag = "num"
         /\ ~df[j].converted /\ df[j].rating = NaN

\* C2: calculate_conversion_probability returns a value in [0.01, 0.95] for
\* every variant assignment, age group and device type, those outside the
\* multiplier tables included.
C2_ProbabilityInRange ==
    pc = "returned" => (1000 <= prob /\ prob <= 95000)

\* C2 witness: a call with an age group and a device outside the tables has
\* returned, with both multipliers neutral.
C2_Witness ==
    /\ pc = "returned"
    /\ prob_args.age_group = "65+"
    /\ prob_args.device_type = "Apple TV"
    /\ prob_args.user_tests["pricing_test"] = "control"
    /\ prob_args.user_tests["icon_design_test"] = "variant_b"
    /\ prob_args.user_tests["description_test"] = "variant_a"
    /\ prob_args.user_tests["screenshots_test"] = "variant_a"
    /\ prob = 30500

\* C3: once generate_summary_statistics has run, for each of the four tests
\* the total_users of its summary rows add up to the number of stored
\* sessions and their conversions to the number of converted sessions.
C3_SummaryPartition ==
    Summarised =>
        \A t \in DOMAIN summary_tests :
            LET rows == {r \in ab_test_summary : r.test_name = summary_tests[t][1]}
            IN  /\ SumField(rows, "total_users") = Len(ab_test_sessions)
                /\ SumField(rows, "conversions")
                     = Len(SelectSeq(ab_test_sessions, LAMBDA r : r.converted))

\* C3 witness: two stored sessions, one of them converted, summarised into two
\* rows of the pricing test.
C3_Witness ==
    /\ pc = "summarised"
    /\ Len(ab_test_sessions) = 2
    /\ Len(SelectSeq(ab_test_sessions, LAMBDA r : r.converted)) = 1
    /\ Cardinality({r \in ab_test_summary : r.test_name = "Pricing Strategy Test"}) = 2

\* C4: under a positive window, for every num_users >= 0 the returned frame
\* has num_users rows, and a run with num_users = 0 neither raises nor makes a
\* database call.
C4_CountAndNoSinkCallsAtZero ==
    test_duration_days > 0 =>
        /\ (Generated /\ num_users >= 0) => Len(df) = num_users
        /\ num_users = 0 => (sink_calls = <<>> /\ pc # "raised")

\* C5: a configuration with num_users < 0 or test_duration_days <= 0 is
\* rejected before anything is sampled or sent to the database.
C5_InvalidConfigurationRejected ==
    InvalidConfiguration =>
        /\ sink_calls = <<>>
        /\ ~tables_exist
        /\ sessions = <<>>
        /\ stream = <<>>

\* The rows of two frames agree, place by place, in variant assignment,
\* conversion flag and time spent.
SameOutcome(a, b) ==
    /\ Len(a) = Len(b)
    /\ \A i \in DOMAIN a :
         /\ a[i].icon_design_variant = b[i].icon_design_variant
         /\ a[i].description_variant = b[i].description_variant
         /\ a[i].pricing_variant = b[i].pricing_variant
         /\ a[i].screenshots_variant = b[i].screenshots_variant
         /\ a[i].converted = b[i].converted
         /\ a[i].time_spent_seconds = b[i].time_spent_seconds

C7_NoSinkBeforeGeneration ==
    (sink_calls # <<>> /\ ~InvalidConfiguration) => Generated

\* C7 amended: the sessions and the summary are written only after
\* generate_user_sessions has returned all num_users records, and while users
\* are generated the database is not touched: what precedes generation is
\* the creation of the tables and the insert of the variant definitions.
C7_BatchHandOff ==
    /\ (\E k \in DOMAIN sink_calls :
          sink_calls[k] \in {"insert_session_data", "generate_summary_statistics"})
         => (Generated /\ Len(df) = Max2(num_users, 0))
    /\ pc = "generating" =>
         /\ sink_calls = <<"create_database_tables", "insert_test_variants">>
         /\ ab_test_sessions = <<>>
         /\ ab_test_summary = {}

\* C7 witness: two generated users have been handed to the database.
C7_Witness ==
    /\ pc = "inserted"
    /\ Len(ab_test_sessions) = 2
    /\ sink_calls = <<"create_database_tables", "insert_test_variants", "insert_session_data">>

\* C8: time_spent_seconds of every generated record is an integer of at least 5.
C8_TimeSpentAtLeastFive ==
    /\ \A i \in DOMAIN sessions :
         sessions[i].time_spent_seconds \in Int /\ sessions[i].time_spent_seconds >= 5
    /\ \A i \in DOMAIN df :
         df[i].time_spent_seconds \in Int /\ df[i].time_spent_seconds >= 5

\* C8 witness: a record whose normal draw lay 200 seconds below its mean, with
\* both bonuses drawn, has the floor of 5 seconds.
C8_Witness ==
    /\ pc = "generated"
    /\ Len(df) = 1
    /\ stream[1].noise = -2000
    /\ stream[1].desc_bonus = 30 /\ stream[1].shot_bonus = 20
    /\ df[1].time_spent_seconds = 5

\* C9: in a run of a valid configuration a summary row of a group without
\* conversions reports total_users, conversions = 0 and conversion_rate = 0 and
\* an avg_rating that is NULL.
C9_NoRatingGivesNull ==
    (Summarised /\ ~InvalidConfiguration) =>
        \A r \in ab_test_summary :
            r.conversions = 0 =>
                /\ r.total_users > 0
                /\ r.conversion_rate = 0
                /\ r.avg_rating = NULL

\* C10: on the generator's domain the cap changes nothing, and with the other
\* arguments fixed the probability is strictly higher for pricing control
\* than for variant_a, and for variant_a than for variant_b.
C10_PricingOrder ==
    (pc = "returned" /\ prob_args.age_group \in AgeGroups
                     /\ prob_args.device_type \in DeviceTypes) =>
        LET with(v) == calculate_conversion_probability(
                           [prob_args.user_tests EXCEPT !["pricing_test"] = v],
                           prob_args.age_group, prob_args.device_type)
            pricing == prob_args.user_tests["pricing_test"]
        IN  /\ prob = scaled_probability(prob_args.user_tests, prob_args.age_group,
                                         prob_args.device_type)
            /\ pricing = "control" => prob > with("variant_a")
            /\ pricing = "variant_a" => (prob < with("control") /\ prob > with("variant_b"))
            /\ pricing = "variant_b" => prob < with("variant_a")

\* C10 witness: the lowest multipliers (55+, Mac) with pricing control: 0.23 * 0.48.
C10_Witness ==
    /\ pc = "returned"
    /\ prob_args.age_group = "55+"
    /\ prob_args.device_type = "Mac"
    /\ prob_args.user_tests = NoArgs.user_tests
    /\ prob = 11040

====
